---- MODULE Spec2Model ----
(***************************************************************************)
(* Model of the AG-UI middleware pipe (src/src/owui-pipe/pipe.py).         *)
(*                                                                         *)
(* Pipe.stream_ag_ui_request is a Python generator.  Its state is the      *)
(* position of the generator (pc, resume), the HTTP connection it holds    *)
(* inside the "with requests.post(...)" block (conn), the response it got  *)
(* (status, body), the lines it has read from response.iter_lines()        *)
(* (lines) and the chunks it has yielded to its consumer (chunks).  The    *)
(* consumer drives it: the generator only runs between a next() call and   *)
(* the following yield, and it can be abandoned only while it is           *)
(* suspended.  Spec (FairSpec with the fairness of the runtime) is one     *)
(* such generator.                                                         *)
(*                                                                         *)
(* TransformSpec is a Pipe on which transform_openwebui_to_ag_ui is called *)
(* a number of times, NonStreamSpec one call of non_stream_ag_ui_request,  *)
(* and PipeSpec two calls of pipe on one Pipe whose steps interleave.      *)
(*                                                                         *)
(* GameSpec is one run of the math game agent                              *)
(* (src/src/pydantic_ai_agent/main.py): the GameState of the run and the   *)
(* tools the agent calls on it, in any order.                              *)
(***************************************************************************)
EXTENDS Integers, Sequences, FiniteSets, TLC

VARIABLES
    pc,         \* "created" | "status" | "loop" | "suspended" | "done"
    resume,     \* where a suspended generator continues: "loop" | "break" | "return" | "end"
    conn,       \* "none" | "open" | "closed": the response of requests.post
    status,     \* response.status_code, 0 while there is no response
    body,       \* response.text of a non-200 response
    lines,      \* the lines response.iter_lines() has handed out so far
    chunks,     \* the values yielded to the consumer so far
    requests,   \* number of requests.post calls issued
    consumer,   \* "iterating" | "stopped"
    outcome,    \* how the generator left the request: "none" | "http_error" |
                \* "finished" | "run_error" | "eos" | "conn_failure" | "exception"
    fail,       \* the requests exception that was caught, "none" if none
    connected,  \* TRUE once line 206 is passed (the event loop is entered)
    \* Pipe.transform_openwebui_to_ag_ui, called any number of times on one Pipe
    valves,     \* self.valves
    uuids,      \* number of uuid.uuid4() calls so far
    calls,      \* number of calls so far
    request,    \* the body of the last call
    invocation, \* the RunAgentInput the last call returned
    log,        \* the identifiers of every call so far, in call order
    same_input, \* TRUE when the last call had the body of the call before it
    \* Pipe.non_stream_ag_ui_request
    ns_pc,      \* "idle" | "posting" | "responded" | "returned"
    ns_request, \* the ag_ui_request dict of the call
    ns_status,  \* response.status_code, 0 while there is no response
    ns_body,    \* response.text
    ns_fail,    \* the requests exception that was caught, if any
    ns_posts,   \* number of requests.post calls issued
    ns_result,  \* the value returned
    \* Pipe.pipe, called twice on one Pipe
    heap,       \* the "state" dict objects created so far, by reference
    draws,      \* number of uuid.uuid4() calls so far
    slots,      \* the two calls: position, locals, what was sent (and the number
                \* of uuid4() calls made by then) and what was returned
    \* the math game agent, one run
    game,        \* ctx.deps.state, a GameState
    game_origin, \* "idle" | "default" | "client": where the run took its state
    game_call    \* the last tool call: tool, arguments, returned text

streamVars == <<pc, resume, conn, status, body, lines, chunks, requests, consumer,
                outcome, fail, connected>>

transformVars == <<valves, uuids, calls, request, invocation, log, same_input>>

nonStreamVars == <<ns_pc, ns_request, ns_status, ns_body, ns_fail, ns_posts, ns_result>>

pipeVars == <<heap, draws, slots>>

gameVars == <<game, game_origin, game_call>>

vars == <<streamVars, transformVars, nonStreamVars, pipeVars, gameVars>>

----------------------------------------------------------------------------
(* Bounds of the model.                                                    *)

\* Longest stream built freely from Alphabet (scripted streams may be longer).
MaxLines == 3

\* Longest message list of a chat request.
MaxMessages == 2

\* Calls of transform_openwebui_to_ag_ui on one Pipe.
MaxCalls == 2

\* Longest stream of a call when two calls are interleaved.
MaxPipeLines == 2

----------------------------------------------------------------------------
(* Valves (configuration).                                                 *)

AG_UI_ENDPOINT_URL == "http://host.docker.internal:8000"

----------------------------------------------------------------------------
(* JSON texts the endpoint may send, and json.loads on them.               *)
(* A parsed value is [t |-> "dict", d |-> record], [t |-> "list",          *)
(* items |-> sequence], [t |-> "str"], [t |-> "int"]; a text json.loads    *)
(* rejects (JSONDecodeError) is [t |-> "invalid"].                         *)

Dict(d) == [t |-> "dict", d |-> d]

J_RunStarted   == "{\"type\":\"RUN_STARTED\",\"runId\":\"r1\"}"
J_MsgStart     == "{\"type\":\"TEXT_MESSAGE_START\",\"messageId\":\"m1\"}"
J_ContentHi    == "{\"type\":\"TEXT_MESSAGE_CONTENT\",\"delta\":\"Hi\"}"
J_ContentThere == "{\"type\":\"TEXT_MESSAGE_CONTENT\",\"delta\":\" there\"}"
J_ContentNone  == "{\"type\":\"TEXT_MESSAGE_CONTENT\"}"
J_ContentEmpty == "{\"type\":\"TEXT_MESSAGE_CONTENT\",\"delta\":\"\"}"
J_MsgEnd       == "{\"type\":\"TEXT_MESSAGE_END\",\"messageId\":\"m1\"}"
J_RunFinished  == "{\"type\":\"RUN_FINISHED\",\"runId\":\"r1\"}"
J_RunError     == "{\"type\":\"RUN_ERROR\",\"message\":\"boom\"}"
J_RunErrorNone == "{\"type\":\"RUN_ERROR\"}"
J_ToolStart    == "{\"type\":\"TOOL_CALL_START\",\"toolCallName\":\"math\"}"
J_ToolStartNone == "{\"type\":\"TOOL_CALL_START\"}"
J_ToolArgs     == "{\"type\":\"TOOL_CALL_ARGS\",\"delta\":\"1+1\"}"
J_ToolArgsNone == "{\"type\":\"TOOL_CALL_ARGS\"}"
J_ToolEnd      == "{\"type\":\"TOOL_CALL_END\"}"
J_ToolResult   == "{\"type\":\"TOOL_CALL_RESULT\",\"content\":\"42\"}"
J_ToolResultNone == "{\"type\":\"TOOL_CALL_RESULT\"}"
J_Custom       == "{\"type\":\"CUSTOM\",\"delta\":\"x\"}"
J_NoType       == "{\"delta\":\"x\"}"
J_Number       == "42"
J_Truncated    == "{\"type\":\"TEXT_MESSAGE_CONTENT\",\"del"

\* Bodies of error responses.
B_OneError  == "[{\"loc\":[\"body\",\"model\"],\"msg\":\"field required\"}]"
B_TwoErrors == "[{\"loc\":[\"body\",\"threadId\"],\"msg\":\"field required\"},{\"loc\":[\"body\"]}]"
B_NoLoc     == "[{\"msg\":\"bad request\"}]"
B_Empty     == "[]"
B_Strings   == "[\"field required\"]"
B_Detail    == "{\"detail\":\"Not Found\"}"
\* What run_agent sends: json.dumps(e.json()), a JSON string holding JSON.
B_Encoded   == "\"[{\\\"loc\\\":[\\\"body\\\",\\\"model\\\"],\\\"msg\\\":\\\"field required\\\"}]\""
B_Plain     == "Internal Server Error"

json_loads(text) ==
    CASE text = J_RunStarted    -> Dict([type |-> "RUN_STARTED", runId |-> "r1"])
      [] text = J_MsgStart      -> Dict([type |-> "TEXT_MESSAGE_START", messageId |-> "m1"])
      [] text = J_ContentHi     -> Dict([type |-> "TEXT_MESSAGE_CONTENT", delta |-> "Hi"])
      [] text = J_ContentThere  -> Dict([type |-> "TEXT_MESSAGE_CONTENT", delta |-> " there"])
      [] text = J_ContentNone   -> Dict([type |-> "TEXT_MESSAGE_CONTENT"])
      [] text = J_ContentEmpty  -> Dict([type |-> "TEXT_MESSAGE_CONTENT", delta |-> ""])
      [] text = J_MsgEnd        -> Dict([type |-> "TEXT_MESSAGE_END", messageId |-> "m1"])
      [] text = J_RunFinished   -> Dict([type |-> "RUN_FINISHED", runId |-> "r1"])
      [] text = J_RunError      -> Dict([type |-> "RUN_ERROR", message |-> "boom"])
      [] text = J_RunErrorNone  -> Dict([type |-> "RUN_ERROR"])
      [] text = J_ToolStart     -> Dict([type |-> "TOOL_CALL_START", toolCallName |-> "math"])
      [] text = J_ToolStartNone -> Dict([type |-> "TOOL_CALL_START"])
      [] text = J_ToolArgs      -> Dict([type |-> "TOOL_CALL_ARGS", delta |-> "1+1"])
      [] text = J_ToolArgsNone  -> Dict([type |-> "TOOL_CALL_ARGS"])
      [] text = J_ToolEnd       -> Dict([type |-> "TOOL_CALL_END"])
      [] text = J_ToolResult    -> Dict([type |-> "TOOL_CALL_RESULT", content |-> "42"])
      [] text = J_ToolResultNone -> Dict([type |-> "TOOL_CALL_RESULT"])
      [] text = J_Custom        -> Dict([type |-> "CUSTOM", delta |-> "x"])
      [] text = J_NoType        -> Dict([delta |-> "x"])
      [] text = J_Number        -> [t |-> "int"]
      [] text = B_OneError      ->
            [t |-> "list",
             items |-> << Dict([loc |-> <<"body", "model">>, msg |-> "field required"]) >>]
      [] text = B_TwoErrors     ->
            [t |-> "list",
             items |-> << Dict([loc |-> <<"body", "threadId">>, msg |-> "field required"]),
                          Dict([loc |-> <<"body">>]) >>]
      [] text = B_NoLoc         -> [t |-> "list", items |-> << Dict([msg |-> "bad request"]) >>]
      [] text = B_Empty         -> [t |-> "list", items |-> << >>]
      [] text = B_Strings       -> [t |-> "list", items |-> << [t |-> "str"] >>]
      [] text = B_Detail        -> Dict([detail |-> "Not Found"])
      [] text = B_Encoded       -> [t |-> "str"]
      [] OTHER                  -> [t |-> "invalid"]

\* dict.get(key, default)
Get(d, key, default) == IF key \in DOMAIN d THEN d[key] ELSE default

\* A test that holds of every value.
TruthyAlways(v) == TRUE

\* Python truth of a string value: "if delta:"
Truthy(v) == v # ""

\* str(e) of the AttributeError raised by .get on a value that is no dict.
NoGetAttribute(v) == "'" \o v.t \o "' object has no attribute 'get'"

----------------------------------------------------------------------------
(* Lines of the response body, as response.iter_lines() hands them out.    *)
(* [kind |-> "empty"] is a blank line, [kind |-> "bytes"] a line that is    *)
(* not valid UTF-8, and [kind |-> "text", prefix, rest] a decodable line   *)
(* split after its first six characters.                                   *)

EmptyLine     == [kind |-> "empty"]
BadUtf8Line   == [kind |-> "bytes"]
TextLine(prefix, rest) == [kind |-> "text", prefix |-> prefix, rest |-> rest]
DataLine(payload) == TextLine("data: ", payload)
CommentLine   == TextLine(": keep", "alive")

\* line.startswith("data: ")
StartsWithData(line) == line.prefix = "data: "

\* What handling one line does: the chunks it yields (at most one), and how
\* control leaves it: "next" (next line), "break", or "raise" (an exception
\* that leaves the loop, with its str() in exc).
Step(out, ctl)  == [out |-> out, ctl |-> ctl, exc |-> ""]
Raise(message)  == [out |-> << >>, ctl |-> "raise", exc |-> message]

\* How a step that leaves the loop by "break" ended the run.
Ending(step) == IF step.out = << >> THEN "finished" ELSE "run_error"

\* Characters of the tool annotations that a TLA+ string cannot hold, spelled
\* by name: the two emoji (U+1F527, U+1F4CB) and the backquote (U+0060).
WRENCH    == ":wrench:"
CLIPBOARD == ":clipboard:"
BACKTICK  == ":backquote:"
FENCE     == BACKTICK \o BACKTICK \o BACKTICK

\* RUN_FINISHED with the break left out.
OnRunFinishedNoBreak(event_data) == Step(<< >>, "next")

\* elif event_type == "RUN_FINISHED": break, with no yield before it.
OnRunFinished(event_data) == Step(<< >>, "break")

\* RUN_ERROR with the break left out.
OnRunErrorNoBreak(event_data) ==
    Step(<<"Error from AG-UI endpoint: " \o Get(event_data, "message", "Unknown error")>>,
         "next")

\* elif event_type == "RUN_ERROR": one chunk with the message, then break.
OnRunError(event_data) ==
    LET error_msg == Get(event_data, "message", "Unknown error") IN
    Step(<<"Error from AG-UI endpoint: " \o error_msg>>, "break")

\* A JSONDecodeError that no handler of the loop catches.
OnJSONDecodeErrorRaise == Raise("Expecting value: line 1 column 1 (char 0)")

\* except json.JSONDecodeError: continue
OnJSONDecodeError == Step(<< >>, "next")

\* The if/elif chain over event_type.
ProcessEvent(event_data) ==
    LET event_type == Get(event_data, "type", "") IN
    CASE event_type = "TEXT_MESSAGE_CONTENT" ->
            LET delta == Get(event_data, "delta", "") IN
            IF Truthy(delta) THEN Step(<<delta>>, "next") ELSE Step(<< >>, "next")
      [] event_type = "TEXT_MESSAGE_START" -> Step(<< >>, "next")
      [] event_type = "TEXT_MESSAGE_END"   -> Step(<< >>, "next")
      [] event_type = "RUN_STARTED"        -> Step(<< >>, "next")
      [] event_type = "RUN_FINISHED"       -> OnRunFinished(event_data)
      [] event_type = "RUN_ERROR"          -> OnRunError(event_data)
      [] event_type = "TOOL_CALL_START" ->
            LET tool_name == Get(event_data, "toolCallName", "unknown") IN
            Step(<<"\n**" \o WRENCH \o " Calling tool: " \o BACKTICK \o tool_name \o BACKTICK \o "**\n">>, "next")
      [] event_type = "TOOL_CALL_ARGS" ->
            LET args_delta == Get(event_data, "delta", "") IN
            IF Truthy(args_delta) THEN Step(<<args_delta>>, "next") ELSE Step(<< >>, "next")
      [] event_type = "TOOL_CALL_END" -> Step(<<"\n">>, "next")
      [] event_type = "TOOL_CALL_RESULT" ->
            LET tool_result == Get(event_data, "content", "") IN
            IF Truthy(tool_result)
            THEN Step(<<"**" \o CLIPBOARD \o " Tool result:**\n" \o FENCE \o "\n"
                        \o tool_result \o "\n" \o FENCE \o "\n\n">>, "next")
            ELSE Step(<< >>, "next")
      [] OTHER -> Step(<< >>, "next")

\* The body of "for line in response.iter_lines():".  json.JSONDecodeError is
\* caught and the line skipped; line.decode and event_data.get are not
\* covered by any handler inside the loop (the KeyError handler never runs:
\* every lookup is a .get with a default).
HandleLine(line) ==
    IF line.kind = "empty" THEN Step(<< >>, "next")
    ELSE IF line.kind = "bytes"
    THEN Raise("'utf-8' codec can't decode byte 0xff in position 0: invalid start byte")
    ELSE IF ~StartsWithData(line) THEN Step(<< >>, "next")
    ELSE LET event_data == json_loads(line.rest) IN
         IF event_data.t = "invalid" THEN OnJSONDecodeError
         ELSE IF event_data.t # "dict" THEN Raise(NoGetAttribute(event_data))
         ELSE ProcessEvent(event_data.d)

----------------------------------------------------------------------------
(* The response to a status other than 200.                                *)

RECURSIVE Join(_, _)
\* sep.join(parts)
Join(sep, parts) ==
    IF parts = << >> THEN ""
    ELSE IF Len(parts) = 1 THEN parts[1]
    ELSE parts[1] \o sep \o Join(sep, Tail(parts))

\* f"{field}: {msg}" of one validation error
ValidationEntry(error) ==
    Join(".", Get(error, "loc", << >>)) \o ": " \o Get(error, "msg", "Unknown error")

\* f"Error: AG-UI endpoint returned {response.status_code}: {error_text}"
StatusErrorText(code, error_text) ==
    "Error: AG-UI endpoint returned " \o ToString(code) \o ": " \o error_text

\* A status test by range: not response.ok.
IsErrorStatusNon2xx(code) == code < 200 \/ code > 299

\* if response.status_code != 200:
IsErrorStatus(code) == code # 200

\* The "if response.status_code != 200:" block once error_text is read: one
\* chunk and "return", or the AttributeError of an entry that is no dict.
StatusError(code, error_text) ==
    LET error_data == IF code = 422 THEN json_loads(error_text) ELSE [t |-> "invalid"] IN
    IF code = 422 /\ error_data.t = "list"
    THEN LET bad == {i \in 1..Len(error_data.items) : error_data.items[i].t # "dict"} IN
         IF bad # {}
         THEN Raise(NoGetAttribute(error_data.items[CHOOSE i \in bad : \A j \in bad : i <= j]))
         ELSE Step(<<"Validation Error: " \o
                     Join("; ", [i \in 1..Len(error_data.items) |->
                                    ValidationEntry(error_data.items[i].d)])>>,
                   "return")
    ELSE Step(<<StatusErrorText(code, error_text)>>, "return")

\* A handler that logs the requests exception and yields nothing.
FailureChunksNone(e) == << >>

\* The chunk of the handler that catches the requests exception e.
FailureChunks(e) ==
    IF e.class = "ConnectionError"
    THEN <<"Error: Failed to connect to AG-UI endpoint at " \o AG_UI_ENDPOINT_URL
           \o ". Please check if the AG-UI endpoint is running.">>
    ELSE <<"Error: Failed to connect to AG-UI endpoint: " \o e.text>>

\* A handler that logs the exception and yields nothing.
ExceptionChunksNone(message) == << >>

\* The chunk of "except Exception as e".
ExceptionChunks(message) == <<"Error: " \o message>>

----------------------------------------------------------------------------
(* The environment: what the endpoint answers and sends.                   *)

Statuses == {200, 201, 204, 404, 422, 500}

Bodies == {B_OneError, B_TwoErrors, B_NoLoc, B_Empty, B_Strings, B_Detail,
           B_Encoded, B_Plain}

\* The requests exceptions a call or a read can raise: ConnectionError
\* (refused, connect timeout) and another RequestException (read timeout).
NoFailure == [class |-> "none", text |-> ""]
Failures  == {[class |-> "ConnectionError", text |-> "Connection refused"],
              [class |-> "RequestException", text |-> "Read timed out."]}

\* Lines a stream is freely built from, up to MaxLines of them.
Alphabet ==
    {EmptyLine, CommentLine, BadUtf8Line,
     DataLine(J_Truncated), DataLine(J_Number),
     DataLine(J_ContentHi), DataLine(J_ContentNone),
     DataLine(J_RunStarted), DataLine(J_RunFinished),
     DataLine(J_RunError), DataLine(J_RunErrorNone),
     DataLine(J_ToolStart), DataLine(J_ToolEnd), DataLine(J_ToolResult),
     DataLine(J_Custom), DataLine(J_NoType)}

\* The literal stream of the specification's example.
ExampleStream ==
    << DataLine(J_RunStarted), DataLine(J_MsgStart), DataLine(J_ContentHi),
       DataLine(J_ContentThere), DataLine(J_MsgEnd), DataLine(J_RunFinished) >>

\* A tool call from start to result, with and without the optional fields.
ToolStream ==
    << DataLine(J_ToolStartNone), DataLine(J_ToolArgs), DataLine(J_ToolArgsNone),
       DataLine(J_ToolEnd), DataLine(J_ToolResultNone), DataLine(J_ContentEmpty),
       DataLine(J_ToolResult) >>

Scripts == {ExampleStream, ToolStream}

\* The lines the endpoint may send after the lines "read".
NextLines(read) ==
    {l \in Alphabet : Len(read) < MaxLines}
    \cup {s[Len(read) + 1] : s \in {t \in Scripts : /\ Len(read) < Len(t)
                                                    /\ SubSeq(t, 1, Len(read)) = read}}

----------------------------------------------------------------------------
(* Pipe.transform_openwebui_to_ag_ui: the chat request as a RunAgentInput. *)
(* A Python dict is a record; None is << >> and any other value v is       *)
(* <<v>> where a lookup may find nothing.  A model id is kept as the       *)
(* sequence of its parts between the "." separators, a number with a       *)
(* fraction in tenths.                                                     *)

None    == << >>
Some(v) == << v >>

\* A lookup with the default True.
GetOptTrue(d, key) == IF key \in DOMAIN d THEN Some(d[key]) ELSE Some(TRUE)

\* d.get(key): None when the key is absent.
GetOpt(d, key) == IF key \in DOMAIN d THEN Some(d[key]) ELSE None

\* The settings a Pipe is constructed with: the defaults of the fields, or
\* the values of the environment variables of the same names.
DefaultValves == [THREAD_ID_PREFIX |-> "openwebui", DEFAULT_MODEL |-> "agui-agent"]
ValvesChoices ==
    {DefaultValves, [THREAD_ID_PREFIX |-> "run", DEFAULT_MODEL |-> "fallback-agent"]}

get_model_mapping == ("agui-agent" :> "agui-agent")

\* str(uuid.uuid4()) of the n-th draw of the process.  The draws are taken
\* to be pairwise different: a repeated random UUID is left out of the model.
Uuid4(n) == "uuid-" \o ToString(n)

\* get_system_message of open_webui.utils.misc: the first message with the
\* role "system", None when there is none.
get_system_message(messages) ==
    LET at == {i \in 1..Len(messages) : messages[i].role = "system"} IN
    IF at = {} THEN None
    ELSE Some(messages[CHOOSE i \in at : \A j \in at : i <= j])

\* A removal that filters nothing.
remove_system_message_keep(messages) == messages

\* remove_system_message of open_webui.utils.misc: the messages whose role
\* is not "system", in their order.
remove_system_message(messages) ==
    SelectSeq(messages, LAMBDA m : m.role # "system")

\* pop_system_message(messages)
pop_system_message(messages) ==
    [system_message |-> get_system_message(messages),
     messages       |-> remove_system_message(messages)]

\* str(d) of a message dict with the keys role and content.
StrOfMessage(m) ==
    "{'role': '" \o m.role \o "', 'content': '" \o m.content \o "'}"

\* The text of a model id.
ModelText(parts) == Join(".", parts)

\* "." in requested_model
HasSeparator(parts) == Len(parts) > 1

\* requested_model.split(".", 1)[1]
AfterSeparator(parts) == Join(".", Tail(parts))

\* A direct lookup that falls back to the default model.
MapDirectDefault(model, valves_) == Get(get_model_mapping, model, valves_.DEFAULT_MODEL)

\* model_mapping.get(requested_model, requested_model)
MapDirect(model, valves_) == Get(get_model_mapping, model, model)

\* model_mapping.get(model_id, self.valves.DEFAULT_MODEL)
MapPrefixed(model_id, valves_) == Get(get_model_mapping, model_id, valves_.DEFAULT_MODEL)

\* Lines 92-103: the model id the endpoint is asked for.
ResolveModel(body_, valves_) ==
    LET requested_model == Get(body_, "model", <<valves_.DEFAULT_MODEL>>) IN
    IF HasSeparator(requested_model)
    THEN MapPrefixed(AfterSeparator(requested_model), valves_)
    ELSE MapDirect(ModelText(requested_model), valves_)

EmptyDict == [k \in {} |-> k]

\* json.dumps(d), kept as the value json.loads gives back for it.
json_dumps(d) == [json |-> d]

\* Lines 73-90: the messages of the RunAgentInput.  "drawn" UUIDs were drawn
\* before the first message is built.
AgUiMessages(body_, drawn) ==
    LET popped         == pop_system_message(Get(body_, "messages", << >>))
        system_message == popped.system_message
        messages       == popped.messages
        first == IF system_message # None
                 THEN << [id      |-> "msg_" \o Uuid4(drawn + 1),
                          role    |-> "system",
                          content |-> StrOfMessage(system_message[1])] >>
                 ELSE << >>
    IN  first \o [i \in 1..Len(messages) |->
                    [id      |-> "msg_" \o Uuid4(drawn + Len(first) + i),
                     role    |-> Get(messages[i], "role", "user"),
                     content |-> Get(messages[i], "content", "")]]

\* body.get("model"), as text
OriginalModel(body_) ==
    IF "model" \in DOMAIN body_ THEN Some(ModelText(body_.model)) ELSE None

\* transform_openwebui_to_ag_ui(body) when "drawn" UUIDs were drawn before.
transform_openwebui_to_ag_ui(body_, valves_, drawn) ==
    LET thread_id       == valves_.THREAD_ID_PREFIX \o "_" \o Uuid4(drawn + 1)
        run_id          == "run_" \o Uuid4(drawn + 2)
        ag_ui_messages  == AgUiMessages(body_, drawn + 2)
        requested_model == ResolveModel(body_, valves_)
    IN  [threadId |-> thread_id,
         runId    |-> run_id,
         state    |-> EmptyDict,
         messages |-> ag_ui_messages,
         tools    |-> << >>,
         context  |-> << [description |-> "OpenWebUI request metadata",
                          value |-> json_dumps(
                             [original_model   |-> OriginalModel(body_),
                              requested_model  |-> requested_model,
                              user_preferences |-> Get(body_, "user", EmptyDict),
                              source           |-> "openwebui_pipe",
                              temperature      |-> GetOpt(body_, "temperature"),
                              max_tokens       |-> GetOpt(body_, "max_tokens"),
                              stream           |-> Get(body_, "stream", TRUE)])] >>,
         forwardedProps |->
            [openwebui_request |-> TRUE,
             model             |-> requested_model,
             original_params   |->
                [temperature |-> GetOpt(body_, "temperature"),
                 top_p       |-> GetOpt(body_, "top_p"),
                 top_k       |-> GetOpt(body_, "top_k"),
                 stop        |-> GetOpt(body_, "stop"),
                 stream      |-> GetOpt(body_, "stream"),
                 max_tokens  |-> GetOpt(body_, "max_tokens")]]]

\* Identifiers taken from one stored value instead of a uuid4() call each.
DrawsNone(ag_ui_request) == 0

\* The number of uuid4() calls of one transformation.
Draws(ag_ui_request) == 2 + Len(ag_ui_request.messages)

\* Chat requests the pipe is called with.
SystemMessage    == [role |-> "system",    content |-> "You are helpful."]
SecondSystem     == [role |-> "system",    content |-> "Be brief."]
UserMessage      == [role |-> "user",      content |-> "Hello"]
AssistantMessage == [role |-> "assistant", content |-> "Hi!"]
MessageKinds     == {SystemMessage, SecondSystem, UserMessage, AssistantMessage}

MessageLists == UNION {[1..n -> MessageKinds] : n \in 0..MaxMessages}

ModelIds ==
    {<<"aguimiddleware", "agui-agent">>, <<"aguimiddleware", "openaigpt4omini">>,
     <<"aguimiddleware", "gpt-4", "1">>, <<"agui-agent">>, <<"gpt-4">>}

ModelFields == {EmptyDict} \cup {[model |-> m] : m \in ModelIds}

ParamFields ==
    {EmptyDict,
     [temperature |-> 7, stop |-> "END"],
     [temperature |-> 7, max_tokens |-> 1000, stream |-> TRUE],
     [stream |-> FALSE, top_p |-> 9, top_k |-> 40, stop |-> "END"],
     [temperature |-> 0, stream |-> FALSE, user |-> [name |-> "ada"]]}

\* Every message list with one model, every model and sampling field with
\* one conversation, and a request with no field at all.
ChatRequests ==
    {[messages |-> ms, model |-> <<"aguimiddleware", "openaigpt4omini">>] :
        ms \in MessageLists}
    \cup {[messages |-> <<SystemMessage, UserMessage>>] @@ m @@ p :
            m \in ModelFields, p \in ParamFields}
    \cup {EmptyDict}

\* No call of the transformation was made.
TransformIdle ==
    /\ valves = DefaultValves
    /\ uuids = 0
    /\ calls = 0
    /\ request = EmptyDict
    /\ invocation = EmptyDict
    /\ log = << >>
    /\ same_input = FALSE

----------------------------------------------------------------------------
(* Pipe.non_stream_ag_ui_request: one request, one returned value.         *)
(* A Python value is kept with its type: [t |-> "str", v |-> text],        *)
(* [t |-> "int", v |-> number], [t |-> "NoneType"], [t |-> "list",         *)
(* items |-> values] and [t |-> "dict", keys |-> keys in their order,      *)
(* d |-> record of values].                                                *)

PyStr(s)        == [t |-> "str", v |-> s]
PyInt(n)        == [t |-> "int", v |-> n]
PyNone          == [t |-> "NoneType"]
PyList(items)   == [t |-> "list", items |-> items]
PyDict(keys, d) == [t |-> "dict", keys |-> keys, d |-> d]

\* Bodies of 200 responses.
R_Content       == "{\"content\":\"answer\"}"
R_All           == "{\"result\":\"r\",\"text\":\"t\",\"message\":\"m\",\"content\":\"c\"}"
R_NoContent     == "{\"result\":\"r\",\"text\":\"t\",\"message\":\"m\"}"
R_TextResult    == "{\"result\":\"r\",\"text\":\"t\"}"
R_Result        == "{\"result\":\"done\"}"
R_ResultNumber  == "{\"result\":42}"
R_Other         == "{\"answer\":\"x\",\"score\":7}"
R_EmptyObject   == "{}"
R_ContentNumber == "{\"content\":42}"
R_ContentNull   == "{\"content\":null,\"text\":\"t\"}"
R_List          == "[1,2]"
R_String        == "\"ok\""
R_NotJson       == "<html>ok</html>"

ResultBodies ==
    {R_Content, R_All, R_NoContent, R_TextResult, R_Result, R_ResultNumber, R_Other,
     R_EmptyObject, R_ContentNumber, R_ContentNull, R_List, R_String, R_NotJson}

\* response.json(): the parsed body, [t |-> "invalid"] when it is no JSON.
response_json(text) ==
    CASE text = R_Content       -> PyDict(<<"content">>, [content |-> PyStr("answer")])
      [] text = R_All           -> PyDict(<<"result", "text", "message", "content">>,
                                          [result |-> PyStr("r"), text |-> PyStr("t"),
                                           message |-> PyStr("m"), content |-> PyStr("c")])
      [] text = R_NoContent     -> PyDict(<<"result", "text", "message">>,
                                          [result |-> PyStr("r"), text |-> PyStr("t"),
                                           message |-> PyStr("m")])
      [] text = R_TextResult    -> PyDict(<<"result", "text">>,
                                          [result |-> PyStr("r"), text |-> PyStr("t")])
      [] text = R_Result        -> PyDict(<<"result">>, [result |-> PyStr("done")])
      [] text = R_ResultNumber  -> PyDict(<<"result">>, [result |-> PyInt(42)])
      [] text = R_Other         -> PyDict(<<"answer", "score">>,
                                          [answer |-> PyStr("x"), score |-> PyInt(7)])
      [] text = R_EmptyObject   -> PyDict(<< >>, EmptyDict)
      [] text = R_ContentNumber -> PyDict(<<"content">>, [content |-> PyInt(42)])
      [] text = R_ContentNull   -> PyDict(<<"content", "text">>,
                                          [content |-> PyNone, text |-> PyStr("t")])
      [] text = R_List          -> PyList(<<PyInt(1), PyInt(2)>>)
      [] text = R_String        -> PyStr("ok")
      [] OTHER                  -> [t |-> "invalid"]

\* str(x) of a text, a number, None, or a list of numbers
StrOf(x) ==
    CASE x.t = "str"      -> x.v
      [] x.t = "int"      -> ToString(x.v)
      [] x.t = "NoneType" -> "None"
      [] x.t = "list"     ->
            "[" \o Join(", ", [i \in 1..Len(x.items) |-> ToString(x.items[i].v)]) \o "]"

\* json.dumps of a text, a number or None
JsonOf(x) ==
    CASE x.t = "str"      -> "\"" \o x.v \o "\""
      [] x.t = "int"      -> ToString(x.v)
      [] x.t = "NoneType" -> "null"

\* json.dumps(result, indent=2) of a dict
json_dumps_indent(result) ==
    IF result.keys = << >> THEN "{}"
    ELSE "{\n" \o
         Join(",\n", [i \in 1..Len(result.keys) |->
                        "  \"" \o result.keys[i] \o "\": " \o JsonOf(result.d[result.keys[i]])])
         \o "\n}"

\* An extraction that tries the fields from "result" to "content".
ExtractResultFirst(result) ==
    IF result.t = "dict"
    THEN IF "result" \in DOMAIN result.d THEN PyStr(StrOf(result.d["result"]))
         ELSE IF "text" \in DOMAIN result.d THEN result.d["text"]
         ELSE IF "message" \in DOMAIN result.d THEN result.d["message"]
         ELSE IF "content" \in DOMAIN result.d THEN result.d["content"]
         ELSE PyStr(json_dumps_indent(result))
    ELSE PyStr(StrOf(result))

\* Lines 332-345: the value returned for a parsed body.
Extract(result) ==
    IF result.t = "dict"
    THEN IF "content" \in DOMAIN result.d THEN result.d["content"]
         ELSE IF "message" \in DOMAIN result.d THEN result.d["message"]
         ELSE IF "text" \in DOMAIN result.d THEN result.d["text"]
         ELSE IF "result" \in DOMAIN result.d THEN PyStr(StrOf(result.d["result"]))
         ELSE PyStr(json_dumps_indent(result))
    ELSE PyStr(StrOf(result))

\* What response.json() raises on a body that is no JSON: the JSONDecodeError
\* of requests, a RequestException, or with an older requests a ValueError.
JsonErrorClasses == {"RequestException", "ValueError"}
JsonErrorText    == "Expecting value: line 1 column 1 (char 0)"

\* f"{field}: {msg}" of one validation error (lines 318-320)
NonStreamValidationEntry(error) ==
    Join(".", Get(error, "loc", << >>)) \o ": " \o Get(error, "msg", "Unknown error")

\* An error text that leaves the status out.
NonStreamStatusErrorTextShort(code, error_text) == "Error: " \o error_text

\* f"Error: AG-UI endpoint returned {response.status_code}: {error_text}" (line 325)
NonStreamStatusErrorText(code, error_text) ==
    "Error: AG-UI endpoint returned " \o ToString(code) \o ": " \o error_text

\* Lines 307-325: the text returned for a response whose status is not 200,
\* or the AttributeError of an entry that is no dict.
NonStreamStatusError(code, error_text) ==
    LET error_data == IF code = 422 THEN json_loads(error_text) ELSE [t |-> "invalid"] IN
    IF code = 422 /\ error_data.t = "list"
    THEN LET bad == {i \in 1..Len(error_data.items) : error_data.items[i].t # "dict"} IN
         IF bad # {}
         THEN Raise(NoGetAttribute(error_data.items[CHOOSE i \in bad : \A j \in bad : i <= j]))
         ELSE Step(<<"Validation Error: " \o
                     Join("; ", [i \in 1..Len(error_data.items) |->
                                    NonStreamValidationEntry(error_data.items[i].d)])>>,
                   "return")
    ELSE Step(<<NonStreamStatusErrorText(code, error_text)>>, "return")

\* Lines 347-353: the text returned for a requests exception.
NonStreamFailureText(e) ==
    IF e.class = "ConnectionError"
    THEN "Error: Failed to connect to AG-UI endpoint at " \o AG_UI_ENDPOINT_URL
         \o ". Please check if the AG-UI endpoint is running."
    ELSE "Error: Failed to connect to AG-UI endpoint: " \o e.text

\* Lines 354-356: the text returned for any other exception.
NonStreamExceptionText(message) == "Error: " \o message

\* Lines 307-345 on a response: the value returned.  "cls" is the class of
\* the exception response.json() raises on a body that is no JSON.
NonStreamReturn(code, text, cls) ==
    IF code # 200
    THEN LET r == NonStreamStatusError(code, text) IN
         IF r.ctl = "raise" THEN PyStr(NonStreamExceptionText(r.exc))
         ELSE PyStr(r.out[1])
    ELSE LET result == response_json(text) IN
         IF result.t = "invalid"
         THEN IF cls = "RequestException"
              THEN PyStr(NonStreamFailureText([class |-> cls, text |-> JsonErrorText]))
              ELSE PyStr(NonStreamExceptionText(JsonErrorText))
         ELSE Extract(result)

\* The RunAgentInput of a call that asks for no stream.
NonStreamRequests ==
    {transform_openwebui_to_ag_ui([messages |-> ms, stream |-> FALSE], DefaultValves, 0) :
        ms \in {<<UserMessage>>, <<SystemMessage, UserMessage>>}}

\* No non-streaming request was made.
NonStreamIdle ==
    /\ ns_pc = "idle"
    /\ ns_request = EmptyDict
    /\ ns_status = 0
    /\ ns_body = ""
    /\ ns_fail = NoFailure
    /\ ns_posts = 0
    /\ ns_result = PyNone

----------------------------------------------------------------------------
(* Pipe.pipe called twice on one Pipe.  Each call has its own locals; the  *)
(* dict objects the calls create live on a heap and are reached by         *)
(* reference, so that a write through one reference is seen through every  *)
(* other reference to the same object.                                     *)

Slots == {1, 2}

IdleSlot ==
    [pc |-> "idle", body |-> EmptyDict, request |-> EmptyDict, ref |-> 0, drawn |-> 0,
     sent |-> EmptyDict, sent_at |-> 0, status |-> 0, text |-> "", fail |-> NoFailure,
     lines |-> << >>, chunks |-> << >>, result |-> PyNone]

\* The bodies pipe is called with.
PipeBodies ==
    {[messages |-> <<SystemMessage, UserMessage>>],
     [messages |-> <<UserMessage>>, stream |-> TRUE],
     [messages |-> <<UserMessage>>, stream |-> FALSE]}

PipeStatuses     == {200, 422, 500}
PipeErrorBodies  == {B_OneError, B_Plain}
PipeResultBodies == {R_Content, R_Other, R_ContentNumber, R_NotJson}
PipeAlphabet     == {DataLine(J_ContentHi), DataLine(J_ToolEnd), DataLine(J_RunFinished),
                     DataLine(J_Number)}

\* One dict object used as the "state" of every request.
SharedState(heap_) == 1

\* "state": {} (line 109): the reference of a new dict object.
NewState(heap_) == Len(heap_) + 1

\* The heap after the dict literal was evaluated.
Allocate(heap_, ref) == IF ref > Len(heap_) THEN Append(heap_, EmptyDict) ELSE heap_

\* json=ag_ui_request: the request as it is serialized when it is posted.
Serialized(slot, heap_) == [slot.request EXCEPT !.state = heap_[slot.ref]]

\* No call of pipe was made.
PipeIdle ==
    /\ heap = << >>
    /\ draws = 0
    /\ slots = [i \in Slots |-> IdleSlot]

----------------------------------------------------------------------------
(* The math game agent (src/src/pydantic_ai_agent/main.py).  A GameState   *)
(* is a record of its five fields; a tool is an operator from the state it *)
(* is called on (and its arguments) to the state it leaves and the text it *)
(* returns.                                                                *)

\* Most problems solved in one run of the model.
MaxSolved == 3

\* Largest score, in absolute value, a run of the model reaches.
MaxScore == 30

\* The emoji that ends the welcome text.
PARTY_POPPER == "[party popper]"

\* GameState(): every field at its default.
GameState ==
    [score |-> 0, problems_solved |-> 0, current_streak |-> 0, best_streak |-> 0,
     player_name |-> "Player"]

\* update_score that never records a best streak.
update_score_keep_best(state, points_earned, problem_correct) ==
    IF problem_correct
    THEN LET added == [state EXCEPT !.score = @ + points_earned,
                                    !.problems_solved = @ + 1,
                                    !.current_streak = @ + 1]
         IN  [state |-> added, returned |-> "Great job!"]
    ELSE [state |-> [state EXCEPT !.current_streak = 0], returned |-> "Oops!"]

\* update_score(ctx, points_earned, problem_correct).
update_score(state, points_earned, problem_correct) ==
    IF problem_correct
    THEN LET added == [state EXCEPT !.score = @ + points_earned,
                                    !.problems_solved = @ + 1,
                                    !.current_streak = @ + 1]
             after == IF added.current_streak > added.best_streak
                      THEN [added EXCEPT !.best_streak = added.current_streak]
                      ELSE added
         IN  [state |-> after,
              returned |-> "Great job! You earned " \o ToString(points_earned)
                           \o " points. Current score: " \o ToString(after.score)
                           \o ", Streak: " \o ToString(after.current_streak)]
    ELSE LET after == [state EXCEPT !.current_streak = 0]
         IN  [state |-> after,
              returned |-> "Oops! Your streak was reset. Current score: "
                           \o ToString(after.score) \o ", Problems solved: "
                           \o ToString(after.problems_solved)]

\* set_player_name(ctx, name).
set_player_name(state, name) ==
    [state |-> [state EXCEPT !.player_name = name],
     returned |-> "Welcome to the math game, " \o name \o "! " \o PARTY_POPPER]

\* reset_game that forgets the best streak as well.
reset_game_all(state) ==
    [state |-> [state EXCEPT !.score = 0, !.problems_solved = 0,
                             !.current_streak = 0, !.best_streak = 0],
     returned |-> "Game reset!"]

\* reset_game(ctx).
reset_game(state) ==
    LET old_best == state.best_streak
        after == [state EXCEPT !.score = 0, !.problems_solved = 0,
                               !.current_streak = 0]
    IN  [state |-> after,
         returned |-> "Game reset! Your best streak of " \o ToString(old_best)
                      \o " is still saved. Let's play again, "
                      \o after.player_name \o "!"]

\* run_agent: the state of the run is the state the client sent, when it
\* sent one, and GameState() otherwise.  A state the client sent is
\* Some(record), no state is None.
StateOfRun(run_input_state) ==
    IF run_input_state = None THEN GameState ELSE run_input_state[1]

\* States a client may send: any integers, whether or not a game led there.
ClientStates ==
    [score : {-10, 10}, problems_solved : {0, 1}, current_streak : {0, 2},
     best_streak : {0, 1}, player_name : {"Alice"}]

\* Arguments the agent passes to its tools.
PointsEarned == {-10, 10, 15}

PlayerNames == {"Alice", "Bob"}

\* No tool was called yet.
NoCall ==
    [tool |-> "none", points_earned |-> None, problem_correct |-> None,
     name |-> None, returned |-> ""]

GameIdle ==
    /\ game = GameState
    /\ game_origin = "idle"
    /\ game_call = NoCall

----------------------------------------------------------------------------
(* The generator.                                                          *)

\* A response that is not closed when its block is left.
ExitWithLeak(c) == c

\* Response.__exit__ at the end of the "with" block: response.close().
ExitWith(c) == "closed"

\* A response opened without a "with" block: no yield is inside one.
InsideWithNever(at) == FALSE

\* Whether the yield a generator is suspended at lies inside the "with" block
\* (the yields of the loop and of the status block do, those of the exception
\* handlers do not).
InsideWith(at) == at \in {"loop", "break", "return"}

\* Chunks handed over newest first.
EmitFirst(out, new) == new \o out

\* "yield": the chunks handed to the consumer, in the order of the yields.
Emit(out, new) == out \o new

StreamInit ==
    /\ pc = "created"
    /\ resume = "none"
    /\ conn = "none"
    /\ status = 0
    /\ body = ""
    /\ lines = << >>
    /\ chunks = << >>
    /\ requests = 0
    /\ consumer = "iterating"
    /\ outcome = "none"
    /\ fail = NoFailure
    /\ connected = FALSE

Init == StreamInit /\ TransformIdle /\ NonStreamIdle /\ PipeIdle /\ GameIdle

\* An exception "e" of requests leaves the "with" block (closing a response
\* that was opened) and is caught by the handlers of lines 278-284.
CatchFailure(e, opened) ==
    /\ conn' = IF opened THEN ExitWith(conn) ELSE conn
    /\ chunks' = Emit(chunks, FailureChunks(e))
    /\ fail' = e
    /\ outcome' = "conn_failure"
    /\ pc' = "suspended"
    /\ resume' = "end"

\* Any other exception leaves the "with" block and is caught at line 285.
CatchException(message) ==
    /\ conn' = ExitWith(conn)
    /\ chunks' = Emit(chunks, ExceptionChunks(message))
    /\ outcome' = "exception"
    /\ pc' = "suspended"
    /\ resume' = "end"
    /\ UNCHANGED fail

\* The consumer's first next(): requests.post is called.
Post ==
    /\ pc = "created"
    /\ consumer = "iterating"
    /\ requests' = requests + 1
    /\ \/ /\ \E e \in Failures : CatchFailure(e, FALSE)
          /\ UNCHANGED <<status, body>>
       \/ /\ \E s \in Statuses : \E b \in (IF s = 200 THEN {""} ELSE Bodies) :
                /\ status' = s
                /\ body' = b
          /\ conn' = "open"
          /\ pc' = "status"
          /\ UNCHANGED <<resume, chunks, outcome, fail>>
    /\ UNCHANGED <<lines, consumer, connected>>

\* "if response.status_code != 200:" and its block, up to the yield.
CheckStatus ==
    /\ pc = "status"
    /\ IF IsErrorStatus(status)
       THEN \/ /\ \E e \in Failures : CatchFailure(e, TRUE)
               /\ UNCHANGED connected
            \/ LET r == StatusError(status, body) IN
               /\ IF r.ctl = "raise"
                  THEN CatchException(r.exc)
                  ELSE /\ chunks' = Emit(chunks, r.out)
                       /\ outcome' = "http_error"
                       /\ pc' = "suspended"
                       /\ resume' = "return"
                       /\ UNCHANGED <<conn, fail>>
               /\ UNCHANGED connected
       ELSE /\ pc' = "loop"
            /\ connected' = TRUE
            /\ UNCHANGED <<resume, conn, chunks, outcome, fail>>
    /\ UNCHANGED <<status, body, lines, requests, consumer>>

\* One iteration of the loop: the next line is read and handled, up to the
\* yield, the break or the exception it ends with.
ReadLine ==
    /\ pc = "loop"
    /\ \E line \in NextLines(lines) :
          LET r == HandleLine(line) IN
          /\ lines' = Append(lines, line)
          /\ CASE r.ctl = "raise" -> CatchException(r.exc)
               [] r.ctl = "break" ->
                    /\ outcome' = Ending(r)
                    /\ chunks' = Emit(chunks, r.out)
                    /\ IF r.out = << >>
                       THEN /\ conn' = ExitWith(conn)
                            /\ pc' = "done"
                            /\ UNCHANGED resume
                       ELSE /\ pc' = "suspended"
                            /\ resume' = "break"
                            /\ UNCHANGED conn
                    /\ UNCHANGED fail
               [] OTHER ->
                    /\ chunks' = Emit(chunks, r.out)
                    /\ IF r.out = << >>
                       THEN UNCHANGED <<pc, resume>>
                       ELSE /\ pc' = "suspended"
                            /\ resume' = "loop"
                    /\ UNCHANGED <<conn, outcome, fail>>
    /\ UNCHANGED <<status, body, requests, consumer, connected>>

\* An end of the loop that reports the missing RUN_FINISHED.
EndOfStreamChunksError == <<"Error: stream ended without RUN_FINISHED">>

\* What is yielded when iter_lines() is exhausted: nothing, the function
\* ends after the loop.
EndOfStreamChunks == << >>

\* iter_lines() is exhausted: the loop and the "with" block end.
EndOfStream ==
    /\ pc = "loop"
    /\ conn' = ExitWith(conn)
    /\ outcome' = "eos"
    /\ pc' = "done"
    /\ chunks' = Emit(chunks, EndOfStreamChunks)
    /\ UNCHANGED <<resume, status, body, lines, requests, consumer, fail, connected>>

\* iter_lines() raises: the connection broke or timed out between two lines.
ReadFailure ==
    /\ pc = "loop"
    /\ \E e \in Failures : CatchFailure(e, TRUE)
    /\ UNCHANGED <<status, body, lines, requests, consumer, connected>>

\* The consumer's next() on a suspended generator.
Resume ==
    /\ pc = "suspended"
    /\ consumer = "iterating"
    /\ IF resume = "loop"
       THEN /\ pc' = "loop"
            /\ UNCHANGED conn
       ELSE /\ pc' = "done"
            /\ conn' = IF InsideWith(resume) THEN ExitWith(conn) ELSE conn
    /\ resume' = "none"
    /\ UNCHANGED <<status, body, lines, chunks, requests, consumer, outcome, fail,
                   connected>>

\* The consumer stops iterating; it can only do so while the generator is
\* not running.
Cancel ==
    /\ pc \in {"created", "suspended"}
    /\ consumer = "iterating"
    /\ consumer' = "stopped"
    /\ UNCHANGED <<pc, resume, conn, status, body, lines, chunks, requests, outcome,
                   fail, connected>>

\* The abandoned generator is closed (generator.close(), also run when the
\* generator object is discarded): GeneratorExit is raised at the yield it is
\* suspended at, which no handler of the function catches, and leaves the
\* "with" block when the yield is inside it.
Finalize ==
    /\ consumer = "stopped"
    /\ pc # "done"
    /\ pc' = "done"
    /\ conn' = IF pc = "suspended" /\ InsideWith(resume) THEN ExitWith(conn) ELSE conn
    /\ resume' = "none"
    /\ UNCHANGED <<status, body, lines, chunks, requests, consumer, outcome, fail,
                   connected>>

\* One generator on its own: nothing else of the Pipe is running.
Next ==
    \/ Post /\ UNCHANGED <<transformVars, nonStreamVars, pipeVars, gameVars>>
    \/ CheckStatus /\ UNCHANGED <<transformVars, nonStreamVars, pipeVars, gameVars>>
    \/ ReadLine /\ UNCHANGED <<transformVars, nonStreamVars, pipeVars, gameVars>>
    \/ EndOfStream /\ UNCHANGED <<transformVars, nonStreamVars, pipeVars, gameVars>>
    \/ ReadFailure /\ UNCHANGED <<transformVars, nonStreamVars, pipeVars, gameVars>>
    \/ Resume /\ UNCHANGED <<transformVars, nonStreamVars, pipeVars, gameVars>>
    \/ Cancel /\ UNCHANGED <<transformVars, nonStreamVars, pipeVars, gameVars>>
    \/ Finalize /\ UNCHANGED <<transformVars, nonStreamVars, pipeVars, gameVars>>

Spec == Init /\ [][Next]_vars

\* The runtime closes a generator its consumer abandoned.
FairSpec == Spec /\ WF_vars(Finalize /\ UNCHANGED <<transformVars, nonStreamVars, pipeVars, gameVars>>)

\* A call that is not left alone: the consumer asks for the next chunk or
\* stops, the runtime closes a generator that was abandoned, and every read
\* ends, with a line, with the end of the stream or with the exception of
\* the read timeout (line 182).
LiveSpec == Spec /\ WF_vars(Next)

----------------------------------------------------------------------------
(* Calls of transform_openwebui_to_ag_ui on one Pipe.                      *)

TransformInit ==
    /\ StreamInit
    /\ NonStreamIdle
    /\ PipeIdle
    /\ GameIdle
    /\ valves \in ValvesChoices
    /\ uuids = 0
    /\ calls = 0
    /\ request = EmptyDict
    /\ invocation = EmptyDict
    /\ log = << >>
    /\ same_input = FALSE

\* self.transform_openwebui_to_ag_ui(body)
Transform ==
    /\ calls < MaxCalls
    /\ \E b \in ChatRequests :
          LET r == transform_openwebui_to_ag_ui(b, valves, uuids) IN
          /\ request' = b
          /\ invocation' = r
          /\ uuids' = uuids + Draws(r)
          /\ log' = Append(log, [threadId   |-> r.threadId,
                                 runId      |-> r.runId,
                                 messageIds |-> [i \in 1..Len(r.messages) |->
                                                   r.messages[i].id]])
          /\ same_input' = (calls > 0 /\ b = request)
    /\ calls' = calls + 1
    /\ UNCHANGED valves

TransformNext == Transform /\ UNCHANGED <<streamVars, nonStreamVars, pipeVars, gameVars>>

TransformSpec == TransformInit /\ [][TransformNext]_vars

----------------------------------------------------------------------------
(* One call of non_stream_ag_ui_request.                                   *)

NonStreamInit == StreamInit /\ TransformIdle /\ NonStreamIdle /\ PipeIdle /\ GameIdle

\* The call, up to requests.post: ag_ui_request["state"]["stream"] = False
NonStreamCall ==
    /\ ns_pc = "idle"
    /\ \E r \in NonStreamRequests :
          ns_request' = [r EXCEPT !.state = [stream |-> FALSE]]
    /\ ns_pc' = "posting"
    /\ UNCHANGED <<ns_status, ns_body, ns_fail, ns_posts, ns_result>>

\* requests.post: it raises, or it returns the response with its body read.
NonStreamPost ==
    /\ ns_pc = "posting"
    /\ ns_posts' = ns_posts + 1
    /\ \/ \E e \in Failures :
             /\ ns_fail' = e
             /\ ns_result' = PyStr(NonStreamFailureText(e))
             /\ ns_pc' = "returned"
             /\ UNCHANGED <<ns_status, ns_body>>
       \/ \E s \in Statuses : \E b \in (IF s = 200 THEN ResultBodies ELSE Bodies) :
             /\ ns_status' = s
             /\ ns_body' = b
             /\ ns_pc' = "responded"
             /\ UNCHANGED <<ns_fail, ns_result>>
    /\ UNCHANGED ns_request

\* Lines 307-345 and the handlers: the response is turned into the value
\* returned.
NonStreamFinish ==
    /\ ns_pc = "responded"
    /\ \E cls \in JsonErrorClasses :
          ns_result' = NonStreamReturn(ns_status, ns_body, cls)
    /\ ns_pc' = "returned"
    /\ UNCHANGED <<ns_request, ns_status, ns_body, ns_fail, ns_posts>>

NonStreamNext ==
    \/ NonStreamCall /\ UNCHANGED <<streamVars, transformVars, pipeVars, gameVars>>
    \/ NonStreamPost /\ UNCHANGED <<streamVars, transformVars, pipeVars, gameVars>>
    \/ NonStreamFinish /\ UNCHANGED <<streamVars, transformVars, pipeVars, gameVars>>

NonStreamSpec == NonStreamInit /\ [][NonStreamNext]_vars

----------------------------------------------------------------------------
(* Two calls of pipe on one Pipe, interleaved.                             *)

PipeInit == StreamInit /\ TransformIdle /\ NonStreamIdle /\ PipeIdle /\ GameIdle

\* pipe(body) of call i, up to its return: the request is built; a streaming
\* call returns the generator without running it, a non-streaming call makes
\* its request and returns the value.
PipeCall(i) ==
    /\ slots[i].pc = "idle"
    /\ \E b \in PipeBodies :
          LET ref   == NewState(heap)
              made  == [slots[i] EXCEPT !.body = b,
                                        !.request = transform_openwebui_to_ag_ui(b, valves, draws),
                                        !.ref = ref,
                                        !.drawn = draws]
              heap1 == Allocate(heap, ref)
          IN  /\ draws' = draws + Draws(made.request)
              /\ IF Get(b, "stream", TRUE)
                 THEN /\ heap' = heap1
                      /\ slots' = [slots EXCEPT ![i] = [made EXCEPT !.pc = "created"]]
                 ELSE LET heap2 == [heap1 EXCEPT ![ref] = [stream |-> FALSE]]
                          sent  == Serialized(made, heap2)
                      IN  /\ heap' = heap2
                          /\ \/ \E e \in Failures :
                                   slots' = [slots EXCEPT ![i] =
                                      [made EXCEPT !.pc = "done", !.sent = sent, !.sent_at = draws',
                                                   !.fail = e,
                                                   !.result = PyStr(NonStreamFailureText(e))]]
                             \/ \E s \in PipeStatuses :
                                \E t \in (IF s = 200 THEN PipeResultBodies ELSE PipeErrorBodies) :
                                \E cls \in JsonErrorClasses :
                                   slots' = [slots EXCEPT ![i] =
                                      [made EXCEPT !.pc = "done", !.sent = sent, !.sent_at = draws',
                                                   !.status = s,
                                                   !.text = t,
                                                   !.result = NonStreamReturn(s, t, cls)]]

\* The first next() on the generator of call i: the request is posted and
\* the status of the response examined.
PipeStart(i) ==
    /\ slots[i].pc = "created"
    /\ LET sent == Serialized(slots[i], heap) IN
       \/ \E e \in Failures :
             slots' = [slots EXCEPT ![i].pc = "done", ![i].sent = sent,
                                    ![i].sent_at = draws, ![i].fail = e,
                                    ![i].chunks = Emit(@, FailureChunks(e))]
       \/ \E s \in PipeStatuses : \E t \in (IF s = 200 THEN {""} ELSE PipeErrorBodies) :
             slots' = [slots EXCEPT ![i].sent = sent, ![i].sent_at = draws,
                                    ![i].status = s, ![i].text = t,
                                    ![i].pc = IF IsErrorStatus(s) THEN "done" ELSE "loop",
                                    ![i].chunks = IF IsErrorStatus(s)
                                                  THEN Emit(@, StatusError(s, t).out)
                                                  ELSE @]
    /\ UNCHANGED <<heap, draws>>

\* The generator of call i reads and handles its next line.
PipeLine(i) ==
    /\ slots[i].pc = "loop"
    /\ Len(slots[i].lines) < MaxPipeLines
    /\ \E line \in PipeAlphabet :
          LET r == HandleLine(line) IN
          slots' = [slots EXCEPT ![i].lines = Append(@, line),
                                 ![i].chunks = IF r.ctl = "raise"
                                               THEN Emit(@, ExceptionChunks(r.exc))
                                               ELSE Emit(@, r.out),
                                 ![i].pc = IF r.ctl \in {"raise", "break"} THEN "done" ELSE "loop"]
    /\ UNCHANGED <<heap, draws>>

\* The stream of call i is exhausted.
PipeEnd(i) ==
    /\ slots[i].pc = "loop"
    /\ slots' = [slots EXCEPT ![i].pc = "done"]
    /\ UNCHANGED <<heap, draws>>

PipeNext ==
    \/ \E i \in Slots : PipeCall(i) /\ UNCHANGED <<streamVars, transformVars, nonStreamVars, gameVars>>
    \/ \E i \in Slots : PipeStart(i) /\ UNCHANGED <<streamVars, transformVars, nonStreamVars, gameVars>>
    \/ \E i \in Slots : PipeLine(i) /\ UNCHANGED <<streamVars, transformVars, nonStreamVars, gameVars>>
    \/ \E i \in Slots : PipeEnd(i) /\ UNCHANGED <<streamVars, transformVars, nonStreamVars, gameVars>>

PipeSpec == PipeInit /\ [][PipeNext]_vars

----------------------------------------------------------------------------
(* One run of the math game agent.                                         *)

GameInit ==
    /\ StreamInit
    /\ TransformIdle
    /\ NonStreamIdle
    /\ PipeIdle
    /\ \E run_input_state \in {None} \cup {Some(c) : c \in ClientStates} :
          /\ game = StateOfRun(run_input_state)
          /\ game_origin = IF run_input_state = None THEN "default" ELSE "client"
    /\ game_call = NoCall

\* The agent calls update_score.
UpdateScore ==
    \E points_earned \in PointsEarned, problem_correct \in BOOLEAN :
       LET call == update_score(game, points_earned, problem_correct)
       IN  /\ problem_correct => game.problems_solved < MaxSolved
           /\ call.state.score \in (-MaxScore)..MaxScore
           /\ game' = call.state
           /\ game_call' = [tool |-> "update_score",
                            points_earned |-> Some(points_earned),
                            problem_correct |-> Some(problem_correct),
                            name |-> None, returned |-> call.returned]
           /\ UNCHANGED game_origin

\* The agent calls set_player_name.
SetPlayerName ==
    \E name \in PlayerNames :
       LET call == set_player_name(game, name)
       IN  /\ game' = call.state
           /\ game_call' = [tool |-> "set_player_name", points_earned |-> None,
                            problem_correct |-> None, name |-> Some(name),
                            returned |-> call.returned]
           /\ UNCHANGED game_origin

\* The agent calls reset_game.
ResetGame ==
    LET call == reset_game(game)
    IN  /\ game' = call.state
        /\ game_call' = [tool |-> "reset_game", points_earned |-> None,
                         problem_correct |-> None, name |-> None,
                         returned |-> call.returned]
        /\ UNCHANGED game_origin

GameNext ==
    \/ UpdateScore /\ UNCHANGED <<streamVars, transformVars, nonStreamVars, pipeVars>>
    \/ SetPlayerName /\ UNCHANGED <<streamVars, transformVars, nonStreamVars, pipeVars>>
    \/ ResetGame /\ UNCHANGED <<streamVars, transformVars, nonStreamVars, pipeVars>>

GameSpec == GameInit /\ [][GameNext]_vars

----------------------------------------------------------------------------
(* Vocabulary of the properties.                                           *)

\* The chunks the lines ls yield, line by line, in the order of the lines.
RECURSIVE Renderings(_)
Renderings(ls) ==
    IF ls = << >> THEN << >> ELSE HandleLine(Head(ls)).out \o Renderings(Tail(ls))

\* The sequence ls without its i-th element.
RemoveAt(ls, i) == SubSeq(ls, 1, i - 1) \o SubSeq(ls, i + 1, Len(ls))

IsDataLine(line) == line.kind = "text" /\ StartsWithData(line)

\* A data line whose payload is the JSON object of an event of this type.
IsEvent(line, type) ==
    /\ IsDataLine(line)
    /\ json_loads(line.rest).t = "dict"
    /\ Get(json_loads(line.rest).d, "type", "") = type

\* A data line whose payload json.loads rejects.
Malformed(line) == IsDataLine(line) /\ json_loads(line.rest).t = "invalid"

\* The error chunk that follows the chunks of the lines, when the stream was
\* left by an exception.
Trailer ==
    CASE outcome = "conn_failure" -> FailureChunks(fail)
      [] outcome = "exception"    -> ExceptionChunks(HandleLine(lines[Len(lines)]).exc)
      [] OTHER                    -> << >>

----------------------------------------------------------------------------
(* Properties.                                                             *)

\* C1: after a 200 response the chunks emitted so far are, in every state,
\* exactly the chunks of the lines read so far, concatenated in the order the
\* lines were read (followed by the one error chunk of an exception that
\* ended the stream): no chunk is reordered or held back across events.
C1_ChunksInReadOrder ==
    connected => chunks = Renderings(lines) \o Trailer

\* Two lines that each yield a chunk were read and both chunks are out.
C1_Witness ==
    /\ Len(lines) >= 2
    /\ lines[1] = DataLine(J_ContentHi)
    /\ lines[2] = DataLine(J_ToolEnd)
    /\ chunks = <<"Hi", "\n">>

\* C2: a RUN_FINISHED event is the last line read; it yields no chunk of its
\* own, the generator is finished with it, and the chunks are those of the
\* lines before it.  The example stream yields exactly "Hi", " there".
C2_RunFinishedEndsStream ==
    /\ \A i \in 1..Len(lines) :
          IsEvent(lines[i], "RUN_FINISHED") =>
             /\ i = Len(lines)
             /\ pc = "done"
             /\ outcome = "finished"
             /\ chunks = Renderings(SubSeq(lines, 1, i - 1))
    /\ lines = ExampleStream => pc = "done" /\ chunks = <<"Hi", " there">>

\* The example stream was read to its RUN_FINISHED.
C2_Witness == lines = ExampleStream /\ outcome = "finished"

\* C3: a RUN_ERROR event is the last line read; the chunks are those of the
\* lines before it followed by exactly one chunk with the event's message
\* ("Unknown error" when it has none), and the generator is left by break.
C3_RunErrorEndsStream ==
    \A i \in 1..Len(lines) :
       IsEvent(lines[i], "RUN_ERROR") =>
          LET d == json_loads(lines[i].rest).d
              message == IF "message" \in DOMAIN d THEN d.message ELSE "Unknown error"
          IN /\ i = Len(lines)
             /\ outcome = "run_error"
             /\ \/ pc = "suspended" /\ resume = "break"
                \/ pc = "done"
             /\ chunks = Renderings(SubSeq(lines, 1, i - 1))
                           \o <<"Error from AG-UI endpoint: " \o message>>

\* A RUN_ERROR without message, read after a line that yielded a chunk.
C3_Witness ==
    /\ lines = << DataLine(J_ContentHi), DataLine(J_RunErrorNone) >>
    /\ chunks = <<"Hi", "Error from AG-UI endpoint: Unknown error">>
    /\ pc = "done"

C5_NoDataLineIsFatal ==
    (connected /\ outcome = "exception") => ~IsDataLine(lines[Len(lines)])

\* A response was received and its status has been examined.
Responded == status # 0 /\ pc # "status"

\* The call went to its error end without entering the event loop: one
\* chunk is out and no line was read.
WentToErrored ==
    /\ ~connected
    /\ lines = << >>
    /\ Len(chunks) = 1
    /\ outcome \in {"http_error", "exception", "conn_failure"}

\* C6 as stated: a response goes directly to the error end if and only if
\* its status is outside 200..299, and every 2xx response is read as a stream.
C6_ErroredIffNon2xx ==
    Responded => /\ WentToErrored <=> status \notin 200..299
                 /\ connected <=> status \in 200..299

\* C6 as amended: a response goes directly to the error end (one error chunk,
\* no line read) if and only if its status is not 200; only a 200 response is
\* read as an event stream.
C6_ErroredIffNot200 ==
    Responded => /\ WentToErrored <=> status # 200
                 /\ connected <=> status = 200

\* A 204 response ended as a status error.
C6_Witness ==
    /\ status = 204
    /\ pc = "done"
    /\ outcome = "http_error"
    /\ chunks = <<"Error: AG-UI endpoint returned 204: Internal Server Error">>

\* The validation errors a body carries, each as "<loc parts joined by
\* '.'>: <msg>", joined by "; ".  B_Encoded is the body run_agent answers a
\* request that fails validation with: the errors, JSON-encoded twice.
EntriesOf(text) ==
    CASE text = B_OneError  -> "body.model: field required"
      [] text = B_TwoErrors -> "body.threadId: field required; body: Unknown error"
      [] text = B_NoLoc     -> ": bad request"
      [] text = B_Encoded   -> "body.model: field required"
      [] OTHER              -> ""

CarriesValidationErrors(text) ==
    text \in {B_OneError, B_TwoErrors, B_NoLoc, B_Empty, B_Encoded}

\* C7: a 422 response (one whose body carries validation errors) surfaces
\* the single string "Validation Error: " followed by the entries of its
\* body; a response with another status outside 200..299 surfaces the status
\* code and the raw body.
C7_ValidationErrorsSurfaced ==
    (Responded /\ outcome = "http_error") =>
       /\ (status = 422 /\ CarriesValidationErrors(body)) =>
             chunks = <<"Validation Error: " \o EntriesOf(body)>>
       /\ status \notin (200..299) \cup {422} =>
             chunks = <<"Error: AG-UI endpoint returned " \o ToString(status) \o ": " \o body>>

\* C8: whenever the generator is finished, however it got there, the
\* connection is not open.
C8_ClosedWhenDone == pc = "done" => conn # "open"

\* The connection broke between two lines and the generator has finished.
C8_Witness ==
    /\ pc = "done"
    /\ outcome = "conn_failure"
    /\ Len(lines) >= 1
    /\ conn = "closed"

C10_FailureIsOneChunkNoRetry ==
    /\ requests <= 1
    /\ outcome = "conn_failure" =>
          /\ requests = 1
          /\ \/ pc = "suspended" /\ resume = "end"
             \/ pc = "done"
          /\ chunks = Renderings(lines) \o
               << IF fail.class = "ConnectionError"
                  THEN "Error: Failed to connect to AG-UI endpoint at http://host.docker.internal:8000. Please check if the AG-UI endpoint is running."
                  ELSE "Error: Failed to connect to AG-UI endpoint: Read timed out." >>

\* A read timed out after a chunk had been emitted.
C10_Witness ==
    /\ outcome = "conn_failure"
    /\ pc = "done"
    /\ chunks = <<"Hi", "Error: Failed to connect to AG-UI endpoint: Read timed out.">>

----------------------------------------------------------------------------
(* Model resolution (C11).                                                 *)

\* The id the mapping is asked for: the text after the first "." of the
\* requested model, the whole text when it has none.
LookedUp(model) ==
    IF Len(model) > 1 THEN Join(".", Tail(model)) ELSE model[1]

Resolved == invocation.forwardedProps.model

\* C11 as stated: a request for a model resolves to the mapped value of the
\* id looked up, and to the configured default model when the mapping does
\* not hold that id, whether or not the model had a separator.
C11_UnmappedResolvesToDefault ==
    (calls > 0 /\ "model" \in DOMAIN request) =>
        IF LookedUp(request.model) = "agui-agent"
        THEN Resolved = "agui-agent"
        ELSE Resolved = valves.DEFAULT_MODEL

\* C11: a request for a model resolves to the mapped value of the id looked
\* up; when the mapping does not hold that id, a model with a separator
\* resolves to the configured default model and a model without one resolves
\* to itself.
C11_UnmappedUnprefixedResolvesToItself ==
    (calls > 0 /\ "model" \in DOMAIN request) =>
        IF LookedUp(request.model) = "agui-agent"
        THEN Resolved = "agui-agent"
        ELSE IF Len(request.model) > 1
             THEN Resolved = valves.DEFAULT_MODEL
             ELSE Resolved = request.model[1]

\* "gpt-4" was requested of a Pipe whose default model is another one.
C11_Witness ==
    /\ calls > 0
    /\ "model" \in DOMAIN request
    /\ request.model = <<"gpt-4">>
    /\ valves.DEFAULT_MODEL = "fallback-agent"
    /\ Resolved = "gpt-4"

----------------------------------------------------------------------------
(* The system message (C12).                                               *)

HasSystemMessage(messages) ==
    \E i \in 1..Len(messages) : messages[i].role = "system"

\* C12: when the messages of a request hold a system message, at whatever
\* position, the first message of the RunAgentInput has the role "system"
\* and no later one has.
C12_SystemMessageFirstOnly ==
    (/\ calls > 0
     /\ "messages" \in DOMAIN request
     /\ HasSystemMessage(request.messages)) =>
        /\ Len(invocation.messages) >= 1
        /\ invocation.messages[1].role = "system"
        /\ \A i \in 2..Len(invocation.messages) :
              invocation.messages[i].role # "system"

\* The system message came last in the request and is first in the
\* RunAgentInput.
C12_Witness ==
    /\ calls > 0
    /\ "messages" \in DOMAIN request
    /\ request.messages = <<UserMessage, SystemMessage>>
    /\ Len(invocation.messages) = 2
    /\ invocation.messages[1].role = "system"
    /\ invocation.messages[2].role = "user"

----------------------------------------------------------------------------
(* Identifiers (C13).                                                      *)

\* C13: over all calls made on a Pipe, no two messages have the same id,
\* whether of one call or of two, and no two calls have the same threadId or
\* the same runId.
C13_IdentifiersNeverRepeat ==
    /\ \A k1, k2 \in 1..Len(log) :
          \A i \in 1..Len(log[k1].messageIds), j \in 1..Len(log[k2].messageIds) :
              (k1 # k2 \/ i # j) => log[k1].messageIds[i] # log[k2].messageIds[j]
    /\ \A k1, k2 \in 1..Len(log) :
          k1 # k2 => /\ log[k1].threadId # log[k2].threadId
                     /\ log[k1].runId # log[k2].runId

\* The same request, with two messages, was transformed twice.
C13_Witness ==
    /\ calls = 2
    /\ same_input
    /\ Len(log[1].messageIds) = 2
    /\ Len(log[2].messageIds) = 2

----------------------------------------------------------------------------
(* Forwarded sampling parameters (C14).                                    *)

SamplingFields == {"temperature", "top_p", "top_k", "stop", "stream", "max_tokens"}

\* C14: original_params of forwardedProps has exactly the six sampling
\* fields; each holds the value the request has for that field, and None
\* when the request has no such field.
C14_OriginalParamsCopied ==
    calls > 0 =>
        LET original_params == invocation.forwardedProps.original_params IN
        /\ DOMAIN original_params = SamplingFields
        /\ \A k \in SamplingFields :
              IF k \in DOMAIN request
              THEN original_params[k] = <<request[k]>>
              ELSE original_params[k] = << >>

\* A request with a temperature and a stop text and no stream field: the
\* two are forwarded, stream is None.
C14_Witness ==
    /\ calls > 0
    /\ DOMAIN request = {"messages", "temperature", "stop"}
    /\ invocation.forwardedProps.original_params =
          [temperature |-> <<7>>, top_p |-> << >>, top_k |-> << >>,
           stop |-> <<"END">>, stream |-> << >>, max_tokens |-> << >>]

----------------------------------------------------------------------------
(* The non-streaming result (C15, C16, C17).                               *)

Priority == <<"content", "message", "text", "result">>

\* The first field of Priority the dict d has; "" when it has none.
FirstPresent(d) ==
    LET at == {i \in 1..Len(Priority) : Priority[i] \in DOMAIN d} IN
    IF at = {} THEN "" ELSE Priority[CHOOSE i \in at : \A j \in at : i <= j]

\* The JSON object of the body, printed with an indentation of two.
PrettyPrinted(text) ==
    CASE text = R_Other       -> "{\n  \"answer\": \"x\",\n  \"score\": 7\n}"
      [] text = R_EmptyObject -> "{}"
      [] OTHER                -> "?"

\* C15: for a 200 response whose body is a JSON object, the value returned
\* is that of the first field the object has among content, message, text
\* and result (the value of result as str gives it), and the object printed
\* with indentation when it has none of the four; for {"content":"answer"}
\* it is "answer".
C15_FirstFieldByPriority ==
    (ns_pc = "returned" /\ ns_status = 200 /\ response_json(ns_body).t = "dict") =>
        LET d     == response_json(ns_body).d
            first == FirstPresent(d)
        IN  /\ first = "" => ns_result = PyStr(PrettyPrinted(ns_body))
            /\ first \in {"content", "message", "text"} => ns_result = d[first]
            /\ first = "result" => ns_result = PyStr(StrOf(d["result"]))
            /\ ns_body = R_Content => ns_result = PyStr("answer")

\* The body has message, text and result, in another order: the message is
\* returned.
C15_Witness ==
    /\ ns_pc = "returned"
    /\ ns_status = 200
    /\ ns_body = R_NoContent
    /\ ns_result = PyStr("m")

\* The one chunk stream_ag_ui_request yields for a response of this status
\* and body.
StreamErrorChunks(code, text) ==
    LET r == StatusError(code, text) IN
    IF r.ctl = "raise" THEN ExceptionChunks(r.exc) ELSE r.out

\* C16: for a response whose status is outside 200..299, the value returned
\* is the text of the one chunk the streaming request yields for the same
\* status and body.
C16_SameErrorTextAsStream ==
    (ns_pc = "returned" /\ ns_status # 0 /\ (ns_status < 200 \/ ns_status > 299)) =>
        /\ Len(StreamErrorChunks(ns_status, ns_body)) = 1
        /\ ns_result = PyStr(StreamErrorChunks(ns_status, ns_body)[1])

\* A 422 response with two validation errors.
C16_Witness ==
    /\ ns_pc = "returned"
    /\ ns_status = 422
    /\ ns_body = B_TwoErrors
    /\ ns_result.t = "str"
    /\ ns_result.v # NonStreamStatusErrorText(422, B_TwoErrors)

\* C17: whatever the outcome of the request, the value returned is a string.
C17_AlwaysReturnsString == ns_pc = "returned" => ns_result.t = "str"

----------------------------------------------------------------------------
(* Chunks per event (C19) and ignored lines (C20).                         *)

\* The chunks each event of the listed kinds is to yield.
ChunksOfEvent(payload) ==
    CASE payload = J_ContentHi      -> <<"Hi">>
      [] payload = J_ContentThere   -> <<" there">>
      [] payload = J_ContentNone    -> << >>
      [] payload = J_ContentEmpty   -> << >>
      [] payload = J_ToolArgs       -> <<"1+1">>
      [] payload = J_ToolArgsNone   -> << >>
      [] payload = J_ToolStart      ->
            <<"\n**" \o WRENCH \o " Calling tool: " \o BACKTICK \o "math" \o BACKTICK \o "**\n">>
      [] payload = J_ToolStartNone  ->
            <<"\n**" \o WRENCH \o " Calling tool: " \o BACKTICK \o "unknown" \o BACKTICK \o "**\n">>
      [] payload = J_ToolEnd        -> <<"\n">>
      [] payload = J_ToolResult     ->
            <<"**" \o CLIPBOARD \o " Tool result:**\n" \o FENCE \o "\n42\n" \o FENCE \o "\n\n">>
      [] payload = J_ToolResultNone -> << >>
      [] payload = J_RunStarted     -> << >>
      [] payload = J_MsgStart       -> << >>
      [] payload = J_MsgEnd         -> << >>

ListedEvents ==
    {J_ContentHi, J_ContentThere, J_ContentNone, J_ContentEmpty, J_ToolArgs,
     J_ToolArgsNone, J_ToolStart, J_ToolStartNone, J_ToolEnd, J_ToolResult,
     J_ToolResultNone, J_RunStarted, J_MsgStart, J_MsgEnd}

IsListedEvent(line) == IsDataLine(line) /\ line.rest \in ListedEvents

RECURSIVE ChunksOfEvents(_)
ChunksOfEvents(ls) ==
    IF ls = << >> THEN << >>
    ELSE ChunksOfEvent(Head(ls).rest) \o ChunksOfEvents(Tail(ls))

\* C19: while the stream is read and it held only events of the kinds
\* TEXT_MESSAGE_CONTENT, TOOL_CALL_ARGS, TOOL_CALL_START, TOOL_CALL_END,
\* TOOL_CALL_RESULT, RUN_STARTED, TEXT_MESSAGE_START and TEXT_MESSAGE_END,
\* the chunks are, event by event: the delta when there is a non-empty one
\* and nothing otherwise; one annotation with the name of the tool; one line
\* break; one fenced block around the content when there is content and
\* nothing otherwise; nothing for the last three.
C19_ChunksByEventKind ==
    (/\ connected
     /\ outcome \in {"none", "eos"}
     /\ \A i \in 1..Len(lines) : IsListedEvent(lines[i])) =>
        chunks = ChunksOfEvents(lines)

\* A tool call with and without its optional fields was read to its end.
C19_Witness ==
    /\ lines = ToolStream
    /\ outcome = "eos"
    /\ Len(chunks) = 4
    /\ chunks[2] = "1+1"
    /\ chunks[3] = "\n"

KnownTypes ==
    {"TEXT_MESSAGE_CONTENT", "TEXT_MESSAGE_START", "TEXT_MESSAGE_END", "RUN_STARTED",
     "RUN_FINISHED", "RUN_ERROR", "TOOL_CALL_START", "TOOL_CALL_ARGS", "TOOL_CALL_END",
     "TOOL_CALL_RESULT"}

\* A line without the "data: " marker (a line that cannot be decoded stands
\* for one whose bytes do not begin with the marker), or a data line whose
\* event has no type or a type that is not known.
Ignorable(line) ==
    \/ ~IsDataLine(line)
    \/ /\ json_loads(line.rest).t = "dict"
       /\ Get(json_loads(line.rest).d, "type", "") \notin KnownTypes

\* C20: a line without the marker and an event of an unknown or missing
\* type change nothing: with such a line at position i, the chunks are those
\* of the stream without it, and the line itself does not end the stream.
C20_IgnorableLineChangesNothing ==
    connected =>
       \A i \in 1..Len(lines) :
          Ignorable(lines[i]) =>
             /\ chunks = Renderings(RemoveAt(lines, i)) \o Trailer
             /\ i = Len(lines) => outcome \in {"none", "eos", "conn_failure"}

----------------------------------------------------------------------------
(* Two calls on one Pipe (C18).                                            *)

Streaming(slot) == Get(slot.body, "stream", TRUE)

\* The request a call sends when it is the only call: the transformation of
\* its own body, with the state the call itself gave it.
SoloRequest(slot) ==
    [transform_openwebui_to_ag_ui(slot.body, valves, slot.drawn)
        EXCEPT !.state = IF Streaming(slot) THEN EmptyDict ELSE [stream |-> FALSE]]

\* The chunks of a streaming call when it is the only call: those of its own
\* response and lines.
SoloChunks(slot) ==
    IF slot.fail # NoFailure THEN FailureChunks(slot.fail)
    ELSE IF slot.status = 0 THEN << >>
    ELSE IF slot.status # 200 THEN StreamErrorChunks(slot.status, slot.text)
    ELSE Renderings(slot.lines) \o
         (IF slot.lines # << >> /\ HandleLine(slot.lines[Len(slot.lines)]).ctl = "raise"
          THEN ExceptionChunks(HandleLine(slot.lines[Len(slot.lines)]).exc)
          ELSE << >>)

\* The values a non-streaming call may return when it is the only call.
SoloResults(slot) ==
    IF slot.fail # NoFailure THEN {PyStr(NonStreamFailureText(slot.fail))}
    ELSE {NonStreamReturn(slot.status, slot.text, cls) : cls \in JsonErrorClasses}

\* C18: whatever the order in which the steps of two calls on one Pipe are
\* taken, each call sends the request and gives the output it gives when it
\* is the only call, and the settings of the Pipe stay as they were.
C18_CallsAreIndependent ==
    /\ valves = DefaultValves
    /\ \A i \in Slots :
          LET slot == slots[i] IN
          /\ slot.pc \in {"loop", "done"} => slot.sent = SoloRequest(slot)
          /\ (slot.pc # "idle" /\ Streaming(slot)) =>
                /\ slot.chunks = SoloChunks(slot)
                /\ slot.result = PyNone
          /\ (slot.pc # "idle" /\ ~Streaming(slot)) =>
                /\ slot.pc = "done"
                /\ slot.chunks = << >>
                /\ slot.result \in SoloResults(slot)

\* A streaming call was made first, a non-streaming call was made and
\* answered before the streaming call posted its request, and both are done.
C18_Witness ==
    /\ slots[1].pc = "done"
    /\ slots[2].pc = "done"
    /\ Streaming(slots[1])
    /\ ~Streaming(slots[2])
    /\ slots[1].drawn = 0
    /\ slots[1].sent_at = draws
    /\ slots[2].sent_at = draws
    /\ slots[1].chunks = <<"Hi", "\n">>
    /\ slots[2].result = PyStr("answer")

----------------------------------------------------------------------------
(* The path pipe takes (C21).                                              *)

\* The streaming flag of a body, true when the body has none.
StreamFlag(body_) == IF "stream" \in DOMAIN body_ THEN body_.stream ELSE TRUE

\* The path and the state of a call, the type of the returned value left
\* aside: a streaming call returns a generator that has sent nothing before
\* it is iterated and then sends an empty state; a non-streaming call has
\* sent state.stream = false and has returned by the end of pipe; the stream
\* value of the context snapshot is the flag the path was chosen by.
PathFollowsFlag(slot) ==
    /\ slot.request.context[1].value.json.stream = StreamFlag(slot.body)
    /\ StreamFlag(slot.body) =>
          /\ slot.result = PyNone
          /\ slot.pc = "created" => (slot.sent = EmptyDict /\ slot.chunks = << >>)
          /\ slot.pc \in {"loop", "done"} => slot.sent.state = EmptyDict
    /\ ~StreamFlag(slot.body) =>
          /\ slot.pc = "done"
          /\ slot.chunks = << >>
          /\ slot.sent.state = [stream |-> FALSE]

\* C21: a call whose body has the streaming flag true, or has none, takes
\* the streaming path: it returns a generator and sends the request with an
\* empty state; a call whose flag is false takes the other path: it returns
\* one string and sends the request with state.stream = false; the stream
\* value of the context snapshot agrees with the path.
C21_PathFollowsStreamFlag ==
    \A i \in Slots :
        slots[i].pc # "idle" =>
            /\ PathFollowsFlag(slots[i])
            /\ ~StreamFlag(slots[i].body) => slots[i].result.t = "str"

----------------------------------------------------------------------------
(* The messages of the RunAgentInput (C22).                                *)

\* The messages of the request of the last call, none when it has no such
\* field.
RequestMessages == Get(request, "messages", << >>)

\* The messages of the RunAgentInput without their ids.
CarriedMessages ==
    [i \in 1..Len(invocation.messages) |->
        [role |-> invocation.messages[i].role, content |-> invocation.messages[i].content]]

NonSystem(messages) == SelectSeq(messages, LAMBDA m : m.role # "system")

Occurrences(messages, m) == Cardinality({i \in 1..Len(messages) : messages[i] = m})

\* The messages other than system messages are carried once each, unchanged
\* and in their order, and no message gives no message.
OthersCarried ==
    calls > 0 =>
        /\ NonSystem(CarriedMessages) = NonSystem(RequestMessages)
        /\ RequestMessages = << >> => invocation.messages = << >>

\* C22: the RunAgentInput holds every message of the request exactly once,
\* the system message included, each with the role and the content it has in
\* the request, the messages other than system messages in their order; a
\* request without messages gives no message.
C22_MessagesCarriedUnchanged ==
    /\ OthersCarried
    /\ calls > 0 =>
          /\ Len(CarriedMessages) = Len(RequestMessages)
          /\ \A i \in 1..Len(RequestMessages) :
                Occurrences(CarriedMessages, RequestMessages[i])
                    = Occurrences(RequestMessages, RequestMessages[i])

----------------------------------------------------------------------------
(* Failures of a streaming call (C23).                                     *)

ErrorPrefixes == {"Error: ", "Validation Error: ", "Error from AG-UI endpoint: "}

\* What follows the prefix in the error texts of the responses, events and
\* failures the endpoint of the model can produce.
ErrorDetails ==
    {"AG-UI endpoint returned " \o ToString(s) \o ": " \o b : s \in Statuses, b \in Bodies}
    \cup {EntriesOf(b) : b \in Bodies}
    \cup {"boom", "Unknown error",
          "Failed to connect to AG-UI endpoint at http://host.docker.internal:8000. Please check if the AG-UI endpoint is running.",
          "Failed to connect to AG-UI endpoint: Connection refused",
          "Failed to connect to AG-UI endpoint: Read timed out.",
          "'int' object has no attribute 'get'",
          "'str' object has no attribute 'get'",
          "'utf-8' codec can't decode byte 0xff in position 0: invalid start byte"}

ErrorTexts == {p \o d : p \in ErrorPrefixes, d \in ErrorDetails}

Failed == outcome \in {"http_error", "run_error", "conn_failure", "exception"}

\* C23: a streaming call that a failure ended (a status other than 200, a
\* RUN_ERROR event, a failure of the connection, an exception raised while a
\* line was handled) has yielded exactly one error text, as its last chunk,
\* and the generator is finished or finishes at the next next() without
\* reading or yielding anything more.
C23_FailureIsFinalErrorChunk ==
    Failed =>
        /\ chunks # << >>
        /\ chunks[Len(chunks)] \in ErrorTexts
        /\ \A i \in 1..(Len(chunks) - 1) : chunks[i] \notin ErrorTexts
        /\ \/ pc = "done"
           \/ pc = "suspended" /\ resume \in {"return", "break", "end"}

\* A payload that is a number raised after a chunk; the error text followed
\* and the generator has finished.
C23_Witness ==
    /\ outcome = "exception"
    /\ pc = "done"
    /\ consumer = "iterating"
    /\ chunks = <<"Hi", "Error: 'int' object has no attribute 'get'">>

----------------------------------------------------------------------------
(* The end of a stream (C24).                                              *)

\* C24: every streaming call comes to its end; and a call whose stream was
\* exhausted without a RUN_FINISHED event is finished with exactly the
\* chunks of the lines it read, none of them an error text, with its
\* connection closed and no failure recorded.
C24_StreamEndsSoftly ==
    /\ <>(pc = "done")
    /\ [](outcome = "eos" =>
            /\ pc = "done"
            /\ conn = "closed"
            /\ fail = NoFailure
            /\ chunks = Renderings(lines)
            /\ \A i \in 1..Len(chunks) : chunks[i] \notin ErrorTexts
            /\ \A i \in 1..Len(lines) : ~IsEvent(lines[i], "RUN_FINISHED"))

\* The stream ended after two events, none of them RUN_FINISHED.
C24_Witness ==
    /\ outcome = "eos"
    /\ pc = "done"
    /\ lines = << DataLine(J_ContentHi), DataLine(J_ToolEnd) >>
    /\ chunks = <<"Hi", "\n">>

----------------------------------------------------------------------------
(* The game state (C25, C26).                                              *)

\* The step is a call of the tool.
Called(tool) == game_call'.tool = tool

\* C25: whatever the game state, a call of reset_game leaves score,
\* problems_solved and current_streak at 0 and best_streak and player_name
\* as they were.
C25_ResetKeepsBestAndName ==
    [][Called("reset_game") =>
          /\ game'.score = 0
          /\ game'.problems_solved = 0
          /\ game'.current_streak = 0
          /\ game'.best_streak = game.best_streak
          /\ game'.player_name = game.player_name]_vars

\* A reset from a state a client sent, after a solved problem and a new
\* name: the best streak of 3 and the name are still there.
C25_Witness ==
    /\ game_origin = "client"
    /\ game_call.tool = "reset_game"
    /\ game = [score |-> 0, problems_solved |-> 0, current_streak |-> 0,
               best_streak |-> 3, player_name |-> "Bob"]
    /\ game_call.returned
         = "Game reset! Your best streak of 3 is still saved. Let's play again, Bob!"

\* C26: in a run that starts from GameState(), current_streak never exceeds
\* best_streak nor problems_solved, no call lowers best_streak, and an
\* update_score for a wrong answer changes current_streak (to 0) and
\* nothing else.
C26_StreaksOfAGame ==
    /\ [](game_origin = "default" =>
            /\ game.current_streak <= game.best_streak
            /\ game.current_streak <= game.problems_solved)
    /\ [][game_origin = "default" =>
            /\ game'.best_streak >= game.best_streak
            /\ (Called("update_score") /\ game_call'.problem_correct = Some(FALSE))
                  => game' = [game EXCEPT !.current_streak = 0]]_vars

\* After two solved problems and a reset, one more solved problem and then a
\* wrong answer: the streak is back at 0 under a best streak of 2.
C26_Witness ==
    /\ game_origin = "default"
    /\ game_call.tool = "update_score"
    /\ game_call.problem_correct = Some(FALSE)
    /\ game.current_streak = 0
    /\ game.best_streak = 2
    /\ game.problems_solved = 1
    /\ game.score = 15

====
